---- MODULE Spec2Model ----
(***************************************************************************)
(* State-machine model of streamReader (stream_reader.go): the pull-based  *)
(* SSE frame assembler RecvRaw/processLines, the decoding wrapper Recv and *)
(* IsComplete.  Bytes are modelled as sequences of one-character strings,  *)
(* the byte source as a fixed wire (newline-terminated lines, an optional  *)
(* unterminated tail, and the error the source ends with).                 *)
(***************************************************************************)
EXTENDS Integers, Sequences, FiniteSets, TLC

VARIABLES wire, emptyMessagesLimit, pos, isFinished, receivedDone,
          dataBufferNil, dataBuffer, errAccumulator, emptyMessagesCount,
          pc, op, ret, out, calls, reads, startPos, backing

vars == <<wire, emptyMessagesLimit, pos, isFinished, receivedDone,
          dataBufferNil, dataBuffer, errAccumulator, emptyMessagesCount,
          pc, op, ret, out, calls, reads, startPos, backing>>

(***************************************************************************)
(* Bounds of the model.                                                    *)
(***************************************************************************)
MaxLines == 3
LiveMaxLines == 2
DecodeMaxLines == 2
MaxEvents == 2
MaxLimit == 1
MaxCalls == 4

(***************************************************************************)
(* Byte strings of the wire format.                                        *)
(***************************************************************************)
LF == "\n"
CR == "\r"
DataPrefix == <<"d", "a", "t", "a", ":", " ">>
ErrorLinePrefix == <<"e", "r", "r", "o", "r", ":", " ">>
DoneToken == <<"[", "D", "O", "N", "E", "]">>
AltDoneToken == <<"d", "o", "n", "e">>
ErrorMarker == <<"\"", "e", "r", "r", "o", "r", "\"", ":">>
ChoicesMarker == <<"\"", "c", "h", "o", "i", "c", "e", "s", "\"">>
OpenBrace == <<"{">>

(***************************************************************************)
(* Payloads used on the wire.                                              *)
(***************************************************************************)
MsgA == <<"{", "\"", "a", "\"", ":", "1", "}">>
NotJSON == <<"x">>
EmptyObject == <<"{", "}">>
ErrorDetailJSON == <<"{">> \o ErrorMarker \o <<"{", "}", "}">>
Null == <<"n", "u", "l", "l">>
ErrorNullJSON == (<<"{">> \o ErrorMarker) \o <<"n", "u", "l", "l", "}">>
PartialChoices == <<"{">> \o ChoicesMarker

(***************************************************************************)
(* bytes package helpers, as the reader uses them.                         *)
(***************************************************************************)
HasPrefix(s, p) == Len(s) >= Len(p) /\ SubSeq(s, 1, Len(p)) = p

TrimPrefix(s, p) == IF HasPrefix(s, p) THEN SubSeq(s, Len(p) + 1, Len(s)) ELSE s

RECURSIVE TrimRight(_, _)
TrimRight(s, cutset) ==
    IF s # <<>> /\ s[Len(s)] \in cutset
    THEN TrimRight(SubSeq(s, 1, Len(s) - 1), cutset)
    ELSE s

RECURSIVE TrimLeft(_, _)
TrimLeft(s, cutset) ==
    IF s # <<>> /\ s[1] \in cutset
    THEN TrimLeft(SubSeq(s, 2, Len(s)), cutset)
    ELSE s

Contains(s, sub) ==
    \E i \in 0..(Len(s) - Len(sub)) : SubSeq(s, i + 1, i + Len(sub)) = sub

(***************************************************************************)
(* Errors.  An error is a string; Unwrap gives the error it wraps.         *)
(***************************************************************************)
NoErr == "nil"
EOF == "io.EOF"
ErrUnexpectedEOF == "io.ErrUnexpectedEOF"
WrappedEOF == "wrapped(io.EOF)"
TransportErr == "transport error"
ErrTooManyEmptyStreamMessages == "ErrTooManyEmptyStreamMessages"
APIErr == "*APIError"
NilAPIErr == "(*APIError)(nil)"
DecodeErr == "decode error"

Unwrap(e) == IF e = WrappedEOF THEN EOF ELSE NoErr

RECURSIVE ErrorsIs(_, _)
ErrorsIs(e, target) ==
    IF e = NoErr THEN FALSE
    ELSE IF e = target THEN TRUE
    ELSE ErrorsIs(Unwrap(e), target)

(***************************************************************************)
(* The byte source.  A wire is the newline-terminated lines the server     *)
(* sent, the unterminated bytes after the last newline (tail), and the     *)
(* error every read reports once the bytes are exhausted (endErr).         *)
(***************************************************************************)
Terminated(p) == p \o <<LF>>

DataLineOf(p) == Terminated(DataPrefix \o p)

ErrorLineOf(p) == Terminated(ErrorLinePrefix \o p)

BlankLine == <<LF>>
DoneLine == DataLineOf(DoneToken)
OtherFieldLine == Terminated(<<"i", "d", ":", "1">>)

Payloads == {MsgA, NotJSON}

LineSet ==
    {BlankLine, DoneLine, OtherFieldLine,
     DataLineOf(MsgA), DataLineOf(NotJSON),
     (DataPrefix \o AltDoneToken) \o <<CR, LF>>, DataLineOf(<<>>),
     ErrorLineOf(ErrorDetailJSON), ErrorLineOf(NotJSON),
     Terminated(ErrorDetailJSON)}

TailSet == {DataPrefix \o NotJSON, ErrorLinePrefix \o NotJSON}

EndErrs == {EOF, ErrUnexpectedEOF, WrappedEOF, TransportErr}

SeqsUpTo(S, n) == UNION {[1..k -> S] : k \in 0..n}

\* One event of the documented format: data lines, then a blank line.
RECURSIVE EventLines(_)
EventLines(ps) ==
    IF ps = <<>> THEN <<BlankLine>>
    ELSE <<DataLineOf(Head(ps))>> \o EventLines(Tail(ps))

RECURSIVE Encode(_)
Encode(events) ==
    IF events = <<>> THEN <<DoneLine>>
    ELSE EventLines(Head(events)) \o Encode(Tail(events))

EventSet == [1..1 -> Payloads] \cup [1..2 -> Payloads]

WellFormedLines == {Encode(es) : es \in SeqsUpTo(EventSet, MaxEvents)}

WireLines(n) ==
    {[lines |-> ls, tail |-> <<>>] : ls \in SeqsUpTo(LineSet, n)}
    \cup {[lines |-> ls, tail |-> t] :
             ls \in SeqsUpTo(LineSet, n - 1), t \in TailSet}
    \cup {[lines |-> ls, tail |-> <<>>] : ls \in WellFormedLines}

WiresOf(n) ==
    {[lines |-> w.lines, tail |-> w.tail, endErr |-> e] :
        w \in WireLines(n), e \in EndErrs}

Wires == WiresOf(MaxLines)

\* Lines whose payloads exercise the decoding of frames and of errors.
DecodeLineSet ==
    LineSet \cup {ErrorLineOf(EmptyObject), ErrorLineOf(Null),
                  DataLineOf(ErrorDetailJSON), DataLineOf(ErrorNullJSON),
                  DataLineOf(PartialChoices)}

DecodeWires ==
    {[lines |-> ls, tail |-> <<>>, endErr |-> e] :
        ls \in SeqsUpTo(DecodeLineSet, DecodeMaxLines), e \in EndErrs}

LiveWires == WiresOf(LiveMaxLines)

\* bufio.Reader.ReadBytes('\n') at read position p: the next terminated
\* line, then once the tail together with the source's error, then the
\* error alone.
ReadBytes(w, p) ==
    IF p < Len(w.lines) THEN [line |-> w.lines[p + 1], err |-> NoErr]
    ELSE IF p = Len(w.lines) THEN [line |-> w.tail, err |-> w.endErr]
    ELSE [line |-> <<>>, err |-> w.endErr]

Advance(w, p) == IF p <= Len(w.lines) THEN p + 1 ELSE p

(***************************************************************************)
(* The injected JSON unmarshaler and the ErrorResponse it fills.           *)
(***************************************************************************)
JSONSpace == {" ", "\n", "\r", "\t"}

TrimSpace(b) == TrimLeft(TrimRight(b, JSONSpace), JSONSpace)

JSONClass(b) ==
    LET t == TrimSpace(b) IN
    IF t = ErrorDetailJSON THEN "error_detail"
    ELSE IF t \in {MsgA, EmptyObject, ErrorNullJSON} THEN "object"
    ELSE IF t = Null THEN "null"
    ELSE "invalid"

ZeroResponse == <<>>

\* unmarshaler.Unmarshal(b, &response)
UnmarshalResponse(b) ==
    IF JSONClass(b) = "invalid"
    THEN [response |-> ZeroResponse, err |-> DecodeErr]
    ELSE IF JSONClass(b) = "object"
    THEN [response |-> TrimSpace(b), err |-> NoErr]
    ELSE [response |-> ZeroResponse, err |-> NoErr]

\* unmarshaler.Unmarshal(b, &errResp) for an ErrorResponse: whether it
\* failed and whether the Error field came out non-nil.
UnmarshalErrorResponse(b) ==
    [err |-> IF JSONClass(b) = "invalid" THEN DecodeErr ELSE NoErr,
     isNull |-> JSONClass(b) = "null",
     hasError |-> JSONClass(b) = "error_detail"]

\* errAccumulator.Write / errAccumulator.Bytes
AccWrite(acc, p) == acc \o p

AccBytes(acc) == acc

\* errResp is not set back to nil when the decode fails.
unmarshalError_KeepOnFailure(acc) ==
    IF Len(AccBytes(acc)) = 0 THEN NoErr
    ELSE IF UnmarshalErrorResponse(AccBytes(acc)).hasError THEN APIErr
    ELSE NilAPIErr

\* streamReader.unmarshalError: "nil" for a nil *ErrorResponse, otherwise
\* the value of its Error field as an error.
unmarshalError(acc) ==
    LET errBytes == AccBytes(acc)
        u == UnmarshalErrorResponse(errBytes)
    IN  IF Len(errBytes) = 0 THEN NoErr
        ELSE IF u.err # NoErr \/ u.isNull THEN NoErr
        ELSE IF u.hasError THEN APIErr
        ELSE NilAPIErr

\* No frame is taken for an error response.
DispatchesError_Never(rawLine) == FALSE

\* The frame carries the `"error":` marker and decodes as an error response
\* whose Error field is set.
DispatchesError(rawLine) ==
    /\ Contains(rawLine, ErrorMarker)
    /\ UnmarshalErrorResponse(rawLine).err = NoErr
    /\ UnmarshalErrorResponse(rawLine).hasError

\* Every error of RecvRaw is turned into io.EOF.
RecvFinish_AllErrorsEOF(rawLine, err) ==
    IF err # NoErr
    THEN [frame |-> <<>>, response |-> ZeroResponse, err |-> EOF]
    ELSE [frame |-> <<>>, response |-> UnmarshalResponse(rawLine).response,
          err |-> UnmarshalResponse(rawLine).err]

(***************************************************************************)
(* Recv after RecvRaw has returned (rawLine, err).                         *)
(***************************************************************************)
RecvFinish(rawLine, err) ==
    IF err # NoErr
    THEN IF ErrorsIs(err, ErrUnexpectedEOF) \/ ErrorsIs(err, EOF)
         THEN [frame |-> <<>>, response |-> ZeroResponse, err |-> EOF]
         ELSE [frame |-> <<>>, response |-> ZeroResponse, err |-> err]
    ELSE IF DispatchesError(rawLine)
    THEN [frame |-> <<>>, response |-> ZeroResponse, err |-> APIErr]
    ELSE LET d == UnmarshalResponse(rawLine) IN
         IF d.err # NoErr /\ Contains(rawLine, ChoicesMarker)
         THEN [frame |-> <<>>, response |-> d.response, err |-> NoErr]
         ELSE [frame |-> <<>>, response |-> d.response, err |-> d.err]

IsComplete == receivedDone

(***************************************************************************)
(* State after construction of the stream over a wire.                     *)
(***************************************************************************)
NoResult == [frame |-> <<>>, response |-> ZeroResponse, err |-> NoErr]

InitOver(ws) ==
    /\ wire \in ws
    /\ emptyMessagesLimit \in 0..MaxLimit
    /\ pos = 0
    /\ reads = 0
    /\ startPos = 0
    /\ isFinished = FALSE
    /\ receivedDone = FALSE
    /\ dataBufferNil = TRUE
    /\ dataBuffer = <<>>
    /\ backing = <<>>
    /\ errAccumulator = <<>>
    /\ emptyMessagesCount = 0
    /\ pc = "idle"
    /\ op = "none"
    /\ ret = NoResult
    /\ out = <<>>
    /\ calls = 0

Init == InitOver(Wires)

LiveInit == InitOver(LiveWires)

DecodeInit == InitOver(DecodeWires)

(***************************************************************************)
(* Returning from RecvRaw with (frame, err): the caller of RecvRaw gets    *)
(* the pair, the caller of Recv gets what Recv makes of it.                *)
(***************************************************************************)
Deliver(o, frame, err) ==
    /\ ret' = IF o = "Recv" THEN RecvFinish(frame, err)
              ELSE [frame |-> frame, response |-> ZeroResponse, err |-> err]
    /\ out' = Append(out, [frame |-> frame, err |-> err])
    /\ pc' = "idle"

\* RecvRaw without its guard on the finished flag.
SkipsSource_Never(finished) == FALSE

\* RecvRaw's guard on the finished flag.
SkipsSource(finished) == finished

\* Entry of a pull: RecvRaw, and the head of processLines.
Call(o) ==
    /\ pc = "idle"
    /\ calls < MaxCalls
    /\ calls' = calls + 1
    /\ op' = o
    /\ startPos' = pos
    /\ IF SkipsSource(isFinished)
       THEN /\ Deliver(o, <<>>, EOF)
            /\ UNCHANGED <<dataBufferNil, emptyMessagesCount>>
       ELSE /\ pc' = "loop"
            /\ dataBufferNil' = FALSE
            /\ emptyMessagesCount' = 0
            /\ UNCHANGED <<ret, out>>
    /\ UNCHANGED <<wire, emptyMessagesLimit, pos, reads, isFinished,
                   receivedDone, dataBuffer, errAccumulator, backing>>

RecvRaw == Call("RecvRaw")

Recv == Call("Recv")

(***************************************************************************)
(* One iteration of the loop of processLines.                              *)
(***************************************************************************)
NextRead == ReadBytes(wire, pos)

CurrentLine == TrimRight(NextRead.line, {CR, LF})

Consume ==
    /\ pos' = Advance(wire, pos)
    /\ reads' = reads + 1

\* Only the alternate token ends the stream.
IsDoneMarker_AltOnly(data) == data = AltDoneToken

\* A heartbeat is taken for the end of the stream.
IsDoneMarker_OrEmpty(data) ==
    data = DoneToken \/ data = AltDoneToken \/ data = <<>>

IsDoneMarker(data) == data = DoneToken \/ data = AltDoneToken

\* Data lines glued together without the separator.
AppendData_NoSeparator(buf, data) == buf \o data

AppendData(buf, data) ==
    IF Len(buf) > 0 THEN (buf \o <<LF>>) \o data ELSE buf \o data

\* Off by one: the limit itself already fails.
LimitExceeded_AtLimit(count, limit) == count >= limit

LimitExceeded(count, limit) == count > limit

HasPendingError(acc) == Len(AccBytes(acc)) > 0 /\ unmarshalError(acc) # NoErr

\* The end of the source reported without looking at the buffer.
FlushesAtEOF_Never(buf) == FALSE

\* What the end of the source yields: the buffered data if there is any.
FlushesAtEOF(buf) == Len(buf) > 0

\* bytes.Buffer starts with room for 64 bytes.
BufCap == 64

\* A write always moves the buffer to a fresh array.
Store_Fresh(array, buf) == buf

\* The array behind dataBuffer once the buffer holds buf: the bytes are
\* written over the start of the same array while they fit, and a buffer
\* that outgrows it moves to a fresh array.
Store(array, buf) ==
    IF Len(buf) <= BufCap
    THEN buf \o SubSeq(array, Len(buf) + 1, Len(array))
    ELSE buf

\* A nil *APIError is returned as a nil error.
AsError_NilIsNil(e) == IF e = NilAPIErr THEN NoErr ELSE e

\* respErr.Error returned through the error interface: a nil *APIError
\* becomes an error value that is not nil.
AsError(e) == e

\* The buffer keeps its bytes after the frame was taken.
Reset_Keep(buf) == buf

\* dataBuffer.Reset() after its bytes were taken as the frame.
Reset(buf) == <<>>

ReadError ==
    /\ pc = "loop"
    /\ NextRead.err # NoErr
    /\ Consume
    /\ IF NextRead.err = EOF
       THEN IF FlushesAtEOF(dataBuffer)
            THEN /\ Deliver(op, dataBuffer, NoErr)
                 /\ dataBuffer' = Reset(dataBuffer)
                 /\ UNCHANGED isFinished
            ELSE /\ isFinished' = TRUE
                 /\ Deliver(op, <<>>, EOF)
                 /\ UNCHANGED dataBuffer
       ELSE /\ Deliver(op, <<>>, NextRead.err)
            /\ UNCHANGED <<isFinished, dataBuffer>>
    /\ UNCHANGED <<wire, emptyMessagesLimit, receivedDone, dataBufferNil,
                   errAccumulator, emptyMessagesCount, op, calls, startPos, backing>>

EventBoundary ==
    /\ pc = "loop"
    /\ NextRead.err = NoErr
    /\ Len(CurrentLine) = 0
    /\ Consume
    /\ IF HasPendingError(errAccumulator)
       THEN /\ Deliver(op, <<>>, AsError(unmarshalError(errAccumulator)))
            /\ UNCHANGED <<dataBuffer, emptyMessagesCount>>
       ELSE IF Len(dataBuffer) > 0
       THEN /\ Deliver(op, dataBuffer, NoErr)
            /\ dataBuffer' = Reset(dataBuffer)
            /\ UNCHANGED emptyMessagesCount
       ELSE /\ emptyMessagesCount' = emptyMessagesCount + 1
            /\ IF LimitExceeded(emptyMessagesCount + 1, emptyMessagesLimit)
               THEN Deliver(op, <<>>, ErrTooManyEmptyStreamMessages)
               ELSE UNCHANGED <<pc, ret, out>>
            /\ UNCHANGED dataBuffer
    /\ UNCHANGED <<wire, emptyMessagesLimit, isFinished, receivedDone,
                   dataBufferNil, errAccumulator, op, calls, startPos, backing>>

DoneMarker ==
    /\ pc = "loop"
    /\ NextRead.err = NoErr
    /\ Len(CurrentLine) # 0
    /\ HasPrefix(CurrentLine, DataPrefix)
    /\ IsDoneMarker(TrimPrefix(CurrentLine, DataPrefix))
    /\ Consume
    /\ isFinished' = TRUE
    /\ receivedDone' = TRUE
    /\ Deliver(op, <<>>, EOF)
    /\ UNCHANGED <<wire, emptyMessagesLimit, dataBufferNil, dataBuffer,
                   errAccumulator, emptyMessagesCount, op, calls, startPos, backing>>

Heartbeat ==
    /\ pc = "loop"
    /\ NextRead.err = NoErr
    /\ Len(CurrentLine) # 0
    /\ HasPrefix(CurrentLine, DataPrefix)
    /\ ~IsDoneMarker(TrimPrefix(CurrentLine, DataPrefix))
    /\ TrimPrefix(CurrentLine, DataPrefix) = <<>>
    /\ Consume
    /\ UNCHANGED <<wire, emptyMessagesLimit, isFinished, receivedDone,
                   dataBufferNil, dataBuffer, errAccumulator,
                   emptyMessagesCount, pc, op, ret, out, calls, startPos, backing>>

AccumulateData ==
    /\ pc = "loop"
    /\ NextRead.err = NoErr
    /\ Len(CurrentLine) # 0
    /\ HasPrefix(CurrentLine, DataPrefix)
    /\ ~IsDoneMarker(TrimPrefix(CurrentLine, DataPrefix))
    /\ TrimPrefix(CurrentLine, DataPrefix) # <<>>
    /\ Consume
    /\ dataBuffer' = AppendData(dataBuffer, TrimPrefix(CurrentLine, DataPrefix))
    /\ backing' = Store(backing, dataBuffer')
    /\ UNCHANGED <<wire, emptyMessagesLimit, isFinished, receivedDone,
                   dataBufferNil, errAccumulator, emptyMessagesCount,
                   pc, op, ret, out, calls, startPos>>

ErrorLine ==
    /\ pc = "loop"
    /\ NextRead.err = NoErr
    /\ Len(CurrentLine) # 0
    /\ ~HasPrefix(CurrentLine, DataPrefix)
    /\ HasPrefix(CurrentLine, ErrorLinePrefix)
    /\ Consume
    /\ errAccumulator' =
           AccWrite(errAccumulator, TrimPrefix(CurrentLine, ErrorLinePrefix))
    /\ UNCHANGED <<wire, emptyMessagesLimit, isFinished, receivedDone,
                   dataBufferNil, dataBuffer, emptyMessagesCount,
                   pc, op, ret, out, calls, startPos, backing>>

IsRawJSONError(line) == Contains(line, ErrorMarker) /\ HasPrefix(line, OpenBrace)

RawJSONErrorLine ==
    /\ pc = "loop"
    /\ NextRead.err = NoErr
    /\ Len(CurrentLine) # 0
    /\ ~HasPrefix(CurrentLine, DataPrefix)
    /\ ~HasPrefix(CurrentLine, ErrorLinePrefix)
    /\ IsRawJSONError(CurrentLine)
    /\ Consume
    /\ errAccumulator' =
           AccWrite(AccWrite(errAccumulator, CurrentLine), <<LF>>)
    /\ UNCHANGED <<wire, emptyMessagesLimit, isFinished, receivedDone,
                   dataBufferNil, dataBuffer, emptyMessagesCount,
                   pc, op, ret, out, calls, startPos, backing>>

IgnoredLine ==
    /\ pc = "loop"
    /\ NextRead.err = NoErr
    /\ Len(CurrentLine) # 0
    /\ ~HasPrefix(CurrentLine, DataPrefix)
    /\ ~HasPrefix(CurrentLine, ErrorLinePrefix)
    /\ ~IsRawJSONError(CurrentLine)
    /\ Consume
    /\ UNCHANGED <<wire, emptyMessagesLimit, isFinished, receivedDone,
                   dataBufferNil, dataBuffer, errAccumulator,
                   emptyMessagesCount, pc, op, ret, out, calls, startPos, backing>>

Next ==
    \/ RecvRaw
    \/ Recv
    \/ ReadError
    \/ EventBoundary
    \/ DoneMarker
    \/ Heartbeat
    \/ AccumulateData
    \/ ErrorLine
    \/ RawJSONErrorLine
    \/ IgnoredLine

Spec == Init /\ [][Next]_vars

\* The same reader over lines that exercise the decoders.
DecodeSpec == DecodeInit /\ [][Next]_vars

\* The caller keeps pulling and a started pull runs to its return.
LiveSpec == LiveInit /\ [][Next]_vars /\ WF_vars(Next)

TypeOK ==
    /\ pos \in 0..(Len(wire.lines) + 1)
    /\ pc \in {"idle", "loop"}
    /\ op \in {"none", "RecvRaw", "Recv"}
    /\ calls \in 0..MaxCalls
    /\ startPos \in 0..pos
    /\ Len(out) <= calls

(***************************************************************************)
(* Properties.                                                             *)
(***************************************************************************)
LastOut == out[Len(out)]

EOFClass == {EOF, ErrUnexpectedEOF, WrappedEOF}

IsBlankRaw(raw) == TrimRight(raw, {CR, LF}) = <<>>

IsDataRaw(raw) == HasPrefix(raw, DataPrefix)

PayloadOfRaw(raw) == TrimPrefix(TrimRight(raw, {CR, LF}), DataPrefix)

IsTerminalRaw(raw) ==
    IsDataRaw(raw) /\ PayloadOfRaw(raw) \in {DoneToken, AltDoneToken}

IsErrorRaw(raw) == ~IsDataRaw(raw) /\ HasPrefix(raw, ErrorLinePrefix)

\* Lines the source has handed out so far.
LinesRead == IF pos <= Len(wire.lines) THEN pos ELSE Len(wire.lines)

\* C1: once isFinished is true it stays true, and every RecvRaw/Recv call
\* made from then on returns io.EOF at once, without a read of the byte
\* source and without a change of the reader position or of the buffers.
C1_FinishedPullsReturnEOF ==
    [][isFinished =>
          /\ isFinished'
          /\ (calls' = calls + 1 =>
                /\ pc' = "idle"
                /\ ret'.err = EOF
                /\ out' = Append(out, [frame |-> <<>>, err |-> EOF])
                /\ reads' = reads
                /\ pos' = pos
                /\ dataBuffer' = dataBuffer
                /\ errAccumulator' = errAccumulator)]_vars

\* A pull was made on a stream that an earlier pull had already finished.
C1_Witness ==
    /\ isFinished
    /\ pc = "idle"
    /\ Len(out) >= 2
    /\ out[Len(out) - 1].err = EOF
    /\ LastOut.err = EOF
    /\ reads < Len(wire.lines)

\* The documented wire format: events of one or more data lines closed by
\* a blank line, then the [DONE] line.
WellFormedWire ==
    LET ls == wire.lines
        n == Len(ls)
    IN  /\ n >= 1
        /\ IsDataRaw(ls[n]) /\ PayloadOfRaw(ls[n]) = DoneToken
        /\ \A i \in 1..(n - 1) :
              \/ IsDataRaw(ls[i]) /\ ~IsTerminalRaw(ls[i])
                    /\ (IsDataRaw(ls[i + 1]) \/ IsBlankRaw(ls[i + 1]))
                    /\ i + 1 < n
              \/ IsBlankRaw(ls[i]) /\ i > 1 /\ IsDataRaw(ls[i - 1])

\* C2: on a well-formed input ended by `data: [DONE]`, a caller that keeps
\* pulling eventually gets io.EOF, and whenever a pull has returned io.EOF
\* IsComplete() is true, whatever emptyMessagesLimit is.
C2_WellFormedEndsComplete ==
    WellFormedWire =>
        /\ <>(pc = "idle" /\ Len(out) > 0 /\ ret.err = EOF /\ IsComplete)
        /\ [](pc = "idle" /\ Len(out) > 0 /\ ret.err = EOF => IsComplete)

\* The end of a well-formed input with at least one event was reached by
\* Recv, with the smallest limit.
C2_Witness ==
    /\ WellFormedWire
    /\ Len(wire.lines) >= 3
    /\ emptyMessagesLimit = 0
    /\ pc = "idle"
    /\ op = "Recv"
    /\ ret.err = EOF
    /\ IsComplete

\* C3: IsComplete() is true only if a data line whose payload is `[DONE]`
\* or `done` is among the lines read so far; a stream that ended without
\* such a line (EOF, transport error, empty-message limit) is not complete.
C3_CompleteOnlyAfterTerminalToken ==
    IsComplete => \E i \in 1..LinesRead : IsTerminalRaw(wire.lines[i])

\* The terminal token was read after other lines.
C3_Witness ==
    /\ IsComplete
    /\ pc = "idle"
    /\ pos >= 2
    /\ IsTerminalRaw(wire.lines[pos])

\* C4: when the source reports end-of-stream while the data buffer holds
\* payload, the pull returns exactly that payload as a frame with a nil
\* error and does not finish the stream; the pull after it, finding the
\* buffer empty at the end of the source, returns io.EOF.
C4_BufferedDataBeforeEOF ==
    [][(pc = "loop" /\ NextRead.err = EOF) =>
          IF Len(dataBuffer) > 0
          THEN /\ pc' = "idle"
               /\ out' = Append(out, [frame |-> dataBuffer, err |-> NoErr])
               /\ ~isFinished'
               /\ dataBuffer' = <<>>
          ELSE /\ pc' = "idle"
               /\ out' = Append(out, [frame |-> <<>>, err |-> EOF])]_vars

\* The buffered payload was returned at the end of the source and the
\* next pull returned io.EOF.
C4_Witness ==
    /\ pc = "idle"
    /\ wire.endErr = EOF
    /\ pos = Len(wire.lines) + 1
    /\ Len(out) >= 2
    /\ out[Len(out) - 1].err = NoErr
    /\ out[Len(out) - 1].frame # <<>>
    /\ LastOut.err = EOF
    /\ ~receivedDone
    /\ reads = Len(wire.lines) + 2
    /\ IsDataRaw(wire.lines[Len(wire.lines)])

\* C5: when the source reports end-of-stream right after an `error:` line
\* (no blank line followed, data buffer empty, error accumulator not
\* empty), the pull returns an error that is not io.EOF.
C5_TruncatedErrorAtEOF ==
    [][(/\ pc = "loop"
        /\ NextRead.err = EOF
        /\ pos = Len(wire.lines)
        /\ pos >= 1
        /\ IsErrorRaw(wire.lines[pos])
        /\ dataBuffer = <<>>
        /\ errAccumulator # <<>>) =>
          /\ pc' = "idle"
          /\ LastOut'.err \notin {NoErr, EOF}]_vars

IsNoiseRaw(raw) ==
    \/ IsBlankRaw(raw)
    \/ /\ ~IsDataRaw(raw)
       /\ ~IsErrorRaw(raw)
       /\ ~IsRawJSONError(TrimRight(raw, {CR, LF}))

ReturnsTooMany ==
    /\ Len(out') = Len(out) + 1
    /\ LastOut'.err = ErrTooManyEmptyStreamMessages

BlanksRead(from, to) ==
    Cardinality({i \in (from + 1)..to : IsBlankRaw(wire.lines[i])})

\* The accumulated error bytes decode to an error response.
PendingDecodes(acc) ==
    acc # <<>> /\ JSONClass(acc) \in {"object", "error_detail"}

IsPayloadLine(raw) ==
    IsDataRaw(raw) /\ ~IsTerminalRaw(raw) /\ PayloadOfRaw(raw) # <<>>

RECURSIVE JoinPayloads(_, _)
JoinPayloads(a, b) ==
    IF a = b THEN PayloadOfRaw(wire.lines[a])
    ELSE (JoinPayloads(a, b - 1) \o <<LF>>) \o PayloadOfRaw(wire.lines[b])

\* The last k lines read are payload lines that follow the start of the
\* stream or a blank line, and the next line is blank.
RunBeforeBoundary(k) ==
    /\ pc = "loop"
    /\ NextRead.err = NoErr
    /\ IsBlankRaw(NextRead.line)
    /\ k <= pos
    /\ \A i \in (pos - k + 1)..pos : IsPayloadLine(wire.lines[i])
    /\ (pos = k \/ IsBlankRaw(wire.lines[pos - k]))
    /\ ~PendingDecodes(errAccumulator)

\* C7: k >= 2 consecutive payload lines p1..pk followed by a blank line,
\* with the buffer empty before them and no error pending, are returned by
\* the pull as the one frame p1 \n p2 ... \n pk, without a leading or
\* trailing separator, and the data buffer is empty afterwards.
C7_MultiLineFrame ==
    [][\A k \in 2..pos :
          RunBeforeBoundary(k) =>
             /\ pc' = "idle"
             /\ out' = Append(out, [frame |-> JoinPayloads(pos - k + 1, pos),
                                    err |-> NoErr])
             /\ dataBuffer' = <<>>]_vars

\* A frame made of two different payloads was returned at a blank line.
C7_Witness ==
    /\ pc = "idle"
    /\ pos >= 3
    /\ pos <= Len(wire.lines)
    /\ IsBlankRaw(wire.lines[pos])
    /\ Len(out) > 0
    /\ LastOut = [frame |-> (MsgA \o <<LF>>) \o NotJSON, err |-> NoErr]
    /\ dataBuffer = <<>>

SingleLineEvents(ms) == [i \in 1..Len(ms) |-> <<ms[i]>>]

\* The message sequences and the lines they are sent as.
RoundTripInputs ==
    {[ms |-> ms, lines |-> Encode(SingleLineEvents(ms))] :
        ms \in SeqsUpTo(Payloads, MaxEvents)}

\* C8: for messages m1..mn sent as `data: mi` plus a blank line each and
\* then `data: [DONE]`, the i-th pull returns exactly mi for i <= n and
\* every pull after the n-th returns io.EOF: nothing is duplicated,
\* reordered, merged or lost, and Recv decodes the frame it was given.
C8_RoundTrip ==
    \A c \in RoundTripInputs :
       wire.lines = c.lines =>
          /\ \A i \in 1..Len(out) :
                out[i] = IF i <= Len(c.ms)
                         THEN [frame |-> c.ms[i], err |-> NoErr]
                         ELSE [frame |-> <<>>, err |-> EOF]
          /\ (pc = "idle" /\ op = "RecvRaw" /\ Len(out) \in 1..Len(c.ms)) =>
                ret.frame = c.ms[Len(out)]
          /\ (pc = "idle" /\ op = "Recv" /\ Len(out) \in 1..Len(c.ms)) =>
                ret.response = UnmarshalResponse(c.ms[Len(out)]).response

\* Two different messages were pulled in order and the pull after them
\* returned io.EOF.
C8_Witness ==
    /\ wire.lines = Encode(SingleLineEvents(<<MsgA, NotJSON>>))
    /\ pc = "idle"
    /\ Len(out) = 3
    /\ LastOut.err = EOF

\* C9: at a blank line with a non-empty error accumulator, a payload that
\* decodes as a structured error is returned as the pull's error (no
\* frame, not io.EOF); a payload that does not decode is passed over and
\* the boundary is handled as usual: buffered data is emitted, otherwise
\* the empty message is counted.
C9_ErrorAtBoundary ==
    [][(/\ pc = "loop"
        /\ NextRead.err = NoErr
        /\ IsBlankRaw(NextRead.line)
        /\ errAccumulator # <<>>) =>
          /\ JSONClass(errAccumulator) = "error_detail" =>
                /\ pc' = "idle"
                /\ out' = Append(out, [frame |-> <<>>, err |-> APIErr])
          /\ JSONClass(errAccumulator) = "invalid" =>
                IF dataBuffer # <<>>
                THEN /\ pc' = "idle"
                     /\ out' = Append(out, [frame |-> dataBuffer,
                                            err |-> NoErr])
                ELSE /\ emptyMessagesCount' = emptyMessagesCount + 1
                     /\ \/ pc' = "loop" /\ out' = out
                        \/ ReturnsTooMany]_vars

\* A structured error accumulated from an `error:` line was returned at
\* the blank line that followed.
C9_Witness ==
    /\ pc = "idle"
    /\ Len(out) > 0
    /\ LastOut = [frame |-> <<>>, err |-> APIErr]
    /\ pos <= Len(wire.lines)
    /\ IsBlankRaw(wire.lines[pos])
    /\ \E i \in 1..pos : IsErrorRaw(wire.lines[i])

\* C10: Recv returns io.EOF exactly when RecvRaw returned io.EOF,
\* io.ErrUnexpectedEOF or an error wrapping one of them; any other error
\* of RecvRaw is returned by Recv as it is.
C10_RecvNormalizesOnlyEOF ==
    (pc = "idle" /\ op = "Recv" /\ Len(out) > 0) =>
        /\ ret.err = EOF <=> LastOut.err \in EOFClass
        /\ LastOut.err \notin (EOFClass \cup {NoErr}) => ret.err = LastOut.err

\* Recv turned an error wrapping io.EOF, which RecvRaw had passed on from
\* the byte source, into io.EOF.
C10_Witness ==
    /\ pc = "idle"
    /\ op = "Recv"
    /\ Len(out) > 0
    /\ LastOut.err = WrappedEOF
    /\ ret.err = EOF

FatalErrs ==
    {TransportErr, ErrUnexpectedEOF, WrappedEOF, ErrTooManyEmptyStreamMessages}

\* C11: after a pull has returned an I/O error other than io.EOF, or
\* ErrTooManyEmptyStreamMessages, no later pull returns a frame.
C11_FatalErrorsAbsorbing ==
    \A i \in 1..Len(out) :
       out[i].err \in FatalErrs =>
          \A j \in (i + 1)..Len(out) : out[j].err # NoErr

\* C12: after a pull has returned a structured API error decoded from the
\* error accumulator, the accumulator is empty.
C12_AccumulatorClearedAfterError ==
    (pc = "idle" /\ Len(out) > 0 /\ LastOut.err = APIErr) =>
        errAccumulator = <<>>

\* C13: when a pull returns end-of-stream, every payload that was appended
\* to the data buffer has been returned in a frame: nothing is left in the
\* buffer.
C13_NoBufferedDataDropped ==
    (pc = "idle" /\ Len(out) > 0 /\ LastOut.err = EOF) => dataBuffer = <<>>

EndsWith(s, p) ==
    Len(s) >= Len(p) /\ SubSeq(s, Len(s) - Len(p) + 1, Len(s)) = p

\* C14: a last line `data: <payload>` without a newline is classified like
\* any other line: when a pull returns end-of-stream, its payload has been
\* delivered at the end of a frame.
C14_UnterminatedLineDelivered ==
    (/\ pc = "idle"
     /\ Len(out) > 0
     /\ LastOut.err = EOF
     /\ wire.endErr = EOF
     /\ pos > Len(wire.lines)
     /\ IsPayloadLine(wire.tail)) =>
        \E i \in 1..Len(out) :
           /\ out[i].err = NoErr
           /\ EndsWith(out[i].frame, PayloadOfRaw(wire.tail))

NonPayloadPrefixes ==
    {<<"e", "v", "e", "n", "t", ":">>, <<"i", "d", ":">>,
     <<"r", "e", "t", "r", "y", ":">>}

IsHeartbeatRaw(raw) == IsDataRaw(raw) /\ PayloadOfRaw(raw) = <<>>

IsFieldRaw(raw) == \E p \in NonPayloadPrefixes : HasPrefix(raw, p)

\* C15: reading a heartbeat line (`data: ` with an empty payload) or a
\* line with an `event:`, `id:` or `retry:` prefix changes nothing but the
\* read position: the data buffer, the error accumulator, isFinished,
\* receivedDone and the empty-message count stay as they are and the pull
\* goes on, so such lines never raise ErrTooManyEmptyStreamMessages and
\* never alter the frame emitted later.
C15_HeartbeatAndFieldsChangeNothing ==
    [][(/\ pc = "loop"
        /\ NextRead.err = NoErr
        /\ IsHeartbeatRaw(NextRead.line) \/ IsFieldRaw(NextRead.line)) =>
          /\ pc' = "loop"
          /\ pos' = pos + 1
          /\ UNCHANGED <<dataBuffer, backing, errAccumulator, isFinished,
                         receivedDone, emptyMessagesCount, ret, out>>]_vars

\* With the limit at 0, a pull read a payload line, then a heartbeat and an
\* `id:` line in either order, and returned the payload alone at EOF.
C15_Witness ==
    /\ pc = "idle"
    /\ emptyMessagesLimit = 0
    /\ Len(wire.lines) = 3
    /\ pos = 4
    /\ IsPayloadLine(wire.lines[1])
    /\ \E i \in 2..3 : IsHeartbeatRaw(wire.lines[i])
    /\ \E i \in 2..3 : IsFieldRaw(wire.lines[i])
    /\ out = <<[frame |-> PayloadOfRaw(wire.lines[1]), err |-> NoErr]>>

\* C16: whenever RecvRaw returns a nil error the frame it returns is not
\* empty, so Recv never hands an empty frame to the decoder; this includes
\* a blank line read while the error accumulator holds JSON that decodes to
\* an error response without an error detail (`error: {}`).
C16_NoEmptyFrame ==
    \A i \in 1..Len(out) : out[i].err = NoErr => out[i].frame # <<>>

\* A blank line was read with `{}` accumulated from an `error:` line, and
\* the pull returned an error and no frame.
C16_Witness ==
    /\ pc = "idle"
    /\ errAccumulator = EmptyObject
    /\ pos >= 2
    /\ pos <= Len(wire.lines)
    /\ IsBlankRaw(wire.lines[pos])
    /\ Len(out) > 0
    /\ LastOut.frame = <<>>
    /\ LastOut.err # NoErr

\* The frame decodes as an error response with an error detail.
DecodesAsErrorDetail(f) ==
    /\ UnmarshalErrorResponse(f).err = NoErr
    /\ UnmarshalErrorResponse(f).hasError

\* C17: in Recv the error dispatch comes before the primary decode: a frame
\* that contains the `"error":` marker and decodes as an error response
\* with an error detail makes Recv return that structured error and no
\* message; without the marker, or when the error decode fails or yields no
\* detail, Recv returns what the primary decode of the same frame gives
\* (a failed decode of a frame with the `"choices"` marker being let pass).
C17_ErrorDispatchBeforeDecode ==
    (pc = "idle" /\ op = "Recv" /\ Len(out) > 0 /\ LastOut.err = NoErr) =>
        IF Contains(LastOut.frame, ErrorMarker)
           /\ DecodesAsErrorDetail(LastOut.frame)
        THEN ret.err = APIErr /\ ret.response = ZeroResponse
        ELSE /\ ret.response = UnmarshalResponse(LastOut.frame).response
             /\ ret.err # APIErr
             /\ ret.err =
                   IF Contains(LastOut.frame, ChoicesMarker) THEN NoErr
                   ELSE UnmarshalResponse(LastOut.frame).err

\* Recv returned the structured error carried by a data frame.
C17_Witness ==
    /\ pc = "idle"
    /\ op = "Recv"
    /\ Len(out) > 0
    /\ LastOut = [frame |-> ErrorDetailJSON, err |-> NoErr]
    /\ ret.err = APIErr

\* The frame is one that the primary decode of Recv rejects.
FailsDecode(f) == RecvFinish(f, NoErr).err = DecodeErr

\* The pull has read only payload lines so far and the next line is blank.
EventRead ==
    /\ pc = "loop"
    /\ pos > startPos
    /\ \A i \in (startPos + 1)..pos : IsPayloadLine(wire.lines[i])
    /\ NextRead.err = NoErr
    /\ IsBlankRaw(NextRead.line)

\* C18: a decode failure in Recv does not corrupt the assembly: when Recv
\* returns the decode error the data buffer is empty and isFinished and
\* receivedDone are as they were, and the next well-formed event is
\* returned by the next Recv as its own frame, with none of the bytes of
\* the frame that failed to decode.
C18_DecodeFailureKeepsAssembly ==
    [][/\ (pc = "loop" /\ op = "Recv" /\ pc' = "idle"
           /\ Len(out') = Len(out) + 1 /\ ret'.err = DecodeErr) =>
              /\ dataBuffer' = <<>>
              /\ UNCHANGED <<isFinished, receivedDone>>
       /\ (op = "Recv" /\ Len(out) > 0 /\ LastOut.err = NoErr
           /\ FailsDecode(LastOut.frame) /\ EventRead) =>
              /\ pc' = "idle"
              /\ out' = Append(out, [frame |-> JoinPayloads(startPos + 1, pos),
                                     err |-> NoErr])
              /\ ret'.response =
                    UnmarshalResponse(JoinPayloads(startPos + 1, pos)).response
              /\ ret'.err = RecvFinish(JoinPayloads(startPos + 1, pos), NoErr).err
              /\ dataBuffer' = <<>>]_vars

\* A frame that does not decode was returned, and the Recv after it
\* returned the message of the next event.
C18_Witness ==
    /\ pc = "idle"
    /\ op = "Recv"
    /\ Len(out) >= 2
    /\ out[Len(out) - 1] = [frame |-> NotJSON, err |-> NoErr]
    /\ LastOut = [frame |-> MsgA, err |-> NoErr]
    /\ ret.response = MsgA
    /\ ret.err = NoErr
    /\ dataBuffer = <<>>
    /\ ~isFinished

\* What Recv returns for the i-th pull of the stream.
RecvErrOf(i) == RecvFinish(out[i].frame, out[i].err).err

\* C19: once a Recv has returned io.EOF (after the terminal token, at a
\* clean end of the source, or for an io.ErrUnexpectedEOF that Recv turns
\* into io.EOF), every later Recv returns io.EOF as well, never a message
\* and never another error.
C19_EOFIsFinal ==
    /\ \A i \in 1..Len(out) : \A j \in (i + 1)..Len(out) :
          RecvErrOf(i) = EOF => RecvErrOf(j) = EOF
    /\ (pc = "idle" /\ op = "Recv" /\ Len(out) > 0) =>
          ret.err = RecvErrOf(Len(out))

\* Two pulls in a row met io.ErrUnexpectedEOF, the stream is not marked
\* finished, and Recv returned io.EOF.
C19_Witness ==
    /\ pc = "idle"
    /\ op = "Recv"
    /\ Len(out) >= 2
    /\ out[Len(out) - 1].err = ErrUnexpectedEOF
    /\ LastOut.err = ErrUnexpectedEOF
    /\ ret.err = EOF
    /\ ~isFinished

====
